---- MODULE Spec2Model ----
(***************************************************************************)
(* A model of scenic's indexed red-black tree                              *)
(* (src/src/data_structures/red_black_tree.rs).                            *)
(*                                                                         *)
(* Heap allocations (Pin<Box<RedBlackTreeNode>>) are node identities       *)
(* 1, 2, ...; a NodeContainer is the identity it owns, or Nil when empty.  *)
(* A key handle (&T, compared by address in the NodeCache) is a number;    *)
(* where the driver compares keys, the number is also the key's value.     *)
(* A panic (unwrap, expect, unimplemented!, panic!) ends the program with  *)
(* the state as it is at the point of the abort.                           *)
(***************************************************************************)
EXTENDS Integers, Sequences, FiniteSets, TLC

\* Bounds of the model.
MaxNodes == 3        \* node allocations in a run of Spec (the full cursor API)
NumKeys == 3         \* key handles the caller owns under Spec
MaxInsertNodes == 8  \* node allocations in a run of SpecInsert (insert only)
MaxDeleteNodes == 6  \* node allocations in a run of SpecDelete (insert, delete)
MaxBSTKeys == 6      \* keys under SpecBST (comparison-driven descent)
MaxEndNodes == 12    \* node allocations in a run of SpecEnds (insert at the ends)
MaxDupNodes == 4     \* node allocations in a run of SpecDup (keys inserted again)
NumValues == 2       \* values written to the ExpandingVector under SpecVec
MaxIndex == 4        \* greatest index written under SpecVec
NumPoints == 3       \* points of the scenes scanned under SpecScan
ExtraSteps == 2      \* calls of step() made on the empty queue under SpecScan

Nil == 0
Keys == 1..NumKeys

VARIABLES
  root,     \* RedBlackTree.root: the node the root container owns, or Nil
  nodes,    \* RedBlackTree.nodes: the NodeCache, key handle -> node
  heap,     \* the live node allocations: node -> its fields
  allocated,\* how many nodes have been allocated so far
  cursor,   \* the one live cursor (a TreeCursor / NodeCursor / LeafCursor)
  aborted,  \* TRUE once an operation has panicked
  last,     \* the last operation and what it did (history)
  values,   \* ExpandingVector.values: the Vec<Option<T>>
  written,  \* index -> the value last written there (history)
  scan_cursor, \* ScanState.cursor: the last point visited, or Nil
  events,   \* ScanState.events: the queue of remaining events
  result,   \* what the last step() returned
  queued,   \* how many events the queue held when it was built (history)
  steps     \* how many calls of step() were made since (history)

\* The fields of the ExpandingVector and of the ScanState.
vec_vars == <<values, written>>

scan_vars == <<scan_cursor, events, result, queued, steps>>

\* The fields of the tree and its live cursor.
tree_vars == <<root, nodes, heap, allocated, cursor>>

vars == <<root, nodes, heap, allocated, cursor, aborted, last, vec_vars, scan_vars>>

----------------------------------------------------------------------------
\* ChildType, TreePosition

flip(ct) == IF ct = "Left" THEN "Right" ELSE "Left"

RootPos == [tag |-> "Root", ptr |-> Nil, ct |-> "None"]

ChildPos(p, ct) == [tag |-> "Child", ptr |-> p, ct |-> ct]

is_root(pos) == pos.tag = "Root"

\* TreePosition::parent: the parent node, or Nil for the root position.
position_parent(pos) == IF pos.tag = "Child" THEN pos.ptr ELSE Nil

\* TreePosition::sibling (called on child positions only).
sibling(pos) == ChildPos(pos.ptr, flip(pos.ct))

----------------------------------------------------------------------------
\* Maps with a dynamic domain (the HashMap, the heap).

EmptyMap == [x \in {} |-> Nil]

MapPut(f, k, v) == [x \in (DOMAIN f) \cup {k} |-> IF x = k THEN v ELSE f[x]]

MapRemove(f, ks) == [x \in (DOMAIN f) \ ks |-> f[x]]

----------------------------------------------------------------------------
\* The context a handler runs in: the tree's fields, whether it has
\* panicked, and the repair cases and rotations it went through.

Ctx(r, h, ix, a) ==
  [root |-> r, heap |-> h, nodes |-> ix, allocated |-> a, panic |-> FALSE,
   cases |-> <<>>, rotations |-> 0]

\* RedBlackTreeNode::child / child_container: the node's child container.
child(h, n, ct) == IF ct = "Left" THEN h[n].left_child ELSE h[n].right_child

\* Writing a node's child container.
WithChild(h, n, ct, v) ==
  IF ct = "Left" THEN [h EXCEPT ![n].left_child = v]
                 ELSE [h EXCEPT ![n].right_child = v]

\* TreePosition::get: the node in this position, Nil for an empty slot.
position_get(m, pos) ==
  IF pos.tag = "Root" THEN m.root ELSE child(m.heap, pos.ptr, pos.ct)

\* Writing the container TreePosition::get_container designates.
container_set(m, pos, v) ==
  IF pos.tag = "Root" THEN [m EXCEPT !.root = v]
                      ELSE [m EXCEPT !.heap = WithChild(m.heap, pos.ptr, pos.ct, v)]

\* The nodes a node owns, itself included (what dropping its Box frees).
RECURSIVE Owned(_, _)
Owned(h, n) ==
  IF n = Nil \/ n \notin DOMAIN h THEN {}
  ELSE {n} \cup Owned(h, h[n].left_child) \cup Owned(h, h[n].right_child)

\* Dropping a Pin<Box<RedBlackTreeNode>>: the node and what it owns are freed.
drop(m, n) ==
  IF n = Nil THEN m ELSE [m EXCEPT !.heap = MapRemove(m.heap, Owned(m.heap, n))]

\* set_pinned without `v.position = self.clone()`.
set_pinned_keeps_position(m, pos, v) ==
  drop(container_set(m, pos, v), position_get(m, pos))

\* TreePosition::set_pinned: the node (if any) records the position and
\* replaces the container's value; the value replaced is dropped.
set_pinned(m, pos, v) ==
  LET old == position_get(m, pos)
      m1 == IF v # Nil THEN [m EXCEPT !.heap[v].position = pos] ELSE m
      m2 == container_set(m1, pos, v)
  IN  drop(m2, old)

\* RedBlackTreeNode::set_child
set_child(m, n, c, ct) == set_pinned(m, ChildPos(n, ct), c)

\* rotate without `self.set_child(pivot_child, ...)`: the subtree between
\* the two nodes is dropped.
rotate_loses_pivot(m, self, direction) ==
  IF m.panic THEN m
  ELSE
    LET position == m.heap[self].position
        new_root == child(m.heap, self, flip(direction))
    IN  IF new_root = Nil THEN [m EXCEPT !.panic = TRUE]
        ELSE
          LET m1 == [m EXCEPT !.heap = WithChild(m.heap, self, flip(direction), Nil)]
              pivot_child == child(m1.heap, new_root, direction)
              m2 == [m1 EXCEPT !.heap = WithChild(m1.heap, new_root, direction, Nil)]
              m3 == drop(m2, pivot_child)
              m4 == container_set(m3, position, Nil)
              m5 == set_child(m4, new_root, self, direction)
              m6 == set_pinned(m5, position, new_root)
          IN  [m6 EXCEPT !.rotations = @ + 1]

\* rotate without `new_root.set_child(container.take(), ...)`: the rotated
\* node is dropped.
rotate_drops_self(m, self, direction) ==
  IF m.panic THEN m
  ELSE
    LET position == m.heap[self].position
        new_root == child(m.heap, self, flip(direction))
    IN  IF new_root = Nil THEN [m EXCEPT !.panic = TRUE]
        ELSE
          LET m1 == [m EXCEPT !.heap = WithChild(m.heap, self, flip(direction), Nil)]
              pivot_child == child(m1.heap, new_root, direction)
              m2 == [m1 EXCEPT !.heap = WithChild(m1.heap, new_root, direction, Nil)]
              m3 == set_child(m2, self, pivot_child, flip(direction))
              m4 == drop(container_set(m3, position, Nil), self)
              m6 == set_pinned(m4, position, new_root)
          IN  [m6 EXCEPT !.rotations = @ + 1]

\* rotate that also re-points the index entry of the rotated node's key to
\* the node taking its place.
rotate_reindexes(m, self, direction) ==
  IF m.panic THEN m
  ELSE
    LET position == m.heap[self].position
        new_root == child(m.heap, self, flip(direction))
    IN  IF new_root = Nil THEN [m EXCEPT !.panic = TRUE]
        ELSE
          LET m1 == [m EXCEPT !.heap = WithChild(m.heap, self, flip(direction), Nil)]
              pivot_child == child(m1.heap, new_root, direction)
              m2 == [m1 EXCEPT !.heap = WithChild(m1.heap, new_root, direction, Nil)]
              m3 == set_child(m2, self, pivot_child, flip(direction))
              m4 == container_set(m3, position, Nil)
              m5 == set_child(m4, new_root, self, direction)
              m6 == set_pinned(m5, position, new_root)
          IN  [m6 EXCEPT !.rotations = @ + 1,
                         !.nodes = MapPut(m6.nodes, m.heap[self].key, new_root)]

\* rotate with the rotated node attached on the wrong side of the new root.
rotate_wrong_side(m, self, direction) ==
  IF m.panic THEN m
  ELSE
    LET position == m.heap[self].position
        new_root == child(m.heap, self, flip(direction))
    IN  IF new_root = Nil THEN [m EXCEPT !.panic = TRUE]
        ELSE
          LET m1 == [m EXCEPT !.heap = WithChild(m.heap, self, flip(direction), Nil)]
              pivot_child == child(m1.heap, new_root, direction)
              m2 == [m1 EXCEPT !.heap = WithChild(m1.heap, new_root, direction, Nil)]
              m3 == set_child(m2, self, pivot_child, flip(direction))
              m4 == container_set(m3, position, Nil)
              m5 == set_child(m4, new_root, self, flip(direction))
              m6 == set_pinned(m5, position, new_root)
          IN  [m6 EXCEPT !.rotations = @ + 1]

\* RedBlackTreeNode::rotate
rotate(m, self, direction) ==
  IF m.panic THEN m
  ELSE
    LET position == m.heap[self].position
        new_root == child(m.heap, self, flip(direction))
    IN  IF new_root = Nil THEN [m EXCEPT !.panic = TRUE]   \* take().unwrap()
        ELSE
          LET m1 == [m EXCEPT !.heap = WithChild(m.heap, self, flip(direction), Nil)]
              pivot_child == child(m1.heap, new_root, direction)
              m2 == [m1 EXCEPT !.heap = WithChild(m1.heap, new_root, direction, Nil)]
              m3 == set_child(m2, self, pivot_child, flip(direction))
              m4 == container_set(m3, position, Nil)         \* container.take()
              m5 == set_child(m4, new_root, self, direction)
              m6 == set_pinned(m5, position, new_root)
          IN  [m6 EXCEPT !.rotations = @ + 1]

\* RedBlackTreeNode::node_color: an absent node (a leaf) is black.
node_color(h, n) == IF n = Nil THEN "Black" ELSE h[n].color

\* Case 3 with the grandparent left black.
case3_recolor_keeps_grandparent(m, parent, uncle, grandparent) ==
  [m EXCEPT !.heap = [@ EXCEPT ![parent].color = "Black",
                               ![uncle].color = "Black"]]

\* Case 3 that rotates the grandparent after recolouring.
case3_recolor_and_rotate(m, parent, uncle, grandparent) ==
  rotate([m EXCEPT !.heap = [@ EXCEPT ![parent].color = "Black",
                                      ![uncle].color = "Black",
                                      ![grandparent].color = "Red"]],
         grandparent, "Left")

\* Case 3 with the uncle left red.
case3_recolor_keeps_uncle(m, parent, uncle, grandparent) ==
  [m EXCEPT !.heap = [@ EXCEPT ![parent].color = "Black",
                               ![grandparent].color = "Red"]]

\* Insert case 3, the recolouring.
case3_recolor(m, parent, uncle, grandparent) ==
  [m EXCEPT !.heap = [@ EXCEPT ![parent].color = "Black",
                               ![uncle].color = "Black",
                               ![grandparent].color = "Red"]]

\* Case 4 without the rotation of the parent: a zig-zag is left as it is.
case4_straighten_skipped(m, self, parent) ==
  [m |-> m, parent |-> parent,
   direction |-> IF m.heap[parent].position.ct = "Left" THEN "Right" ELSE "Left"]

\* Insert case 4, the rotation of the parent that straightens a zig-zag;
\* the result names the node the last step treats as the parent.
case4_straighten(m, self, parent) ==
  LET sct == m.heap[self].position.ct
      pct == m.heap[parent].position.ct
  IN  IF sct = "Left" /\ pct = "Left" THEN
        [m |-> m, parent |-> parent, direction |-> "Right"]
      ELSE IF sct = "Right" /\ pct = "Right" THEN
        [m |-> m, parent |-> parent, direction |-> "Left"]
      ELSE IF sct = "Right" /\ pct = "Left" THEN
        [m |-> rotate(m, parent, "Left"), parent |-> self, direction |-> "Right"]
      ELSE
        [m |-> rotate(m, parent, "Right"), parent |-> self, direction |-> "Left"]

\* Case 4 without `grandparent.color = Color::Red`.
case4_finish_grandparent_black(m, parent, direction) ==
  IF m.panic THEN m
  ELSE
    LET grandparent == position_parent(m.heap[parent].position)
    IN  IF grandparent = Nil THEN [m EXCEPT !.panic = TRUE]
        ELSE
          LET m1 == rotate(m, grandparent, direction)
          IN  IF m1.panic THEN m1
              ELSE [m1 EXCEPT !.heap[parent].color = "Black"]

\* Case 4 without the exchange of colours after the rotation.
case4_finish_no_recolor(m, parent, direction) ==
  IF m.panic THEN m
  ELSE
    LET grandparent == position_parent(m.heap[parent].position)
    IN  IF grandparent = Nil THEN [m EXCEPT !.panic = TRUE]
        ELSE rotate(m, grandparent, direction)

\* Insert case 4, the last step: rotate the grandparent, swap the colours.
case4_finish(m, parent, direction) ==
  IF m.panic THEN m
  ELSE
    LET grandparent == position_parent(m.heap[parent].position)
    IN  IF grandparent = Nil THEN [m EXCEPT !.panic = TRUE]   \* expect()
        ELSE
          LET m1 == rotate(m, grandparent, direction)
          IN  IF m1.panic THEN m1
              ELSE [m1 EXCEPT !.heap = [@ EXCEPT ![parent].color = "Black",
                                                 ![grandparent].color = "Red"]]

\* repair_tree that colours a root black and repairs nothing else.
repair_tree_root_only(m, self) ==
  IF position_parent(m.heap[self].position) = Nil
    THEN [m EXCEPT !.heap[self].color = "Black", !.cases = Append(@, 1)]
    ELSE [m EXCEPT !.cases = Append(@, 2)]

\* repair_tree whose case 3 goes on at the parent, not the grandparent.
RECURSIVE repair_tree_at_parent(_, _)
repair_tree_at_parent(m, self) ==
  LET parent == position_parent(m.heap[self].position)
  IN  IF parent # Nil /\ m.heap[parent].color = "Black" THEN
        [m EXCEPT !.cases = Append(@, 2)]
      ELSE IF parent # Nil THEN
        LET grandparent == position_parent(m.heap[parent].position)
        IN  IF grandparent = Nil THEN [m EXCEPT !.panic = TRUE]
            ELSE
              LET uncle == position_get(m, sibling(m.heap[parent].position))
              IN  IF node_color(m.heap, uncle) = "Red" THEN
                    repair_tree_at_parent(
                      case3_recolor([m EXCEPT !.cases = Append(@, 3)],
                                    parent, uncle, grandparent),
                      parent)
                  ELSE
                    LET s == case4_straighten([m EXCEPT !.cases = Append(@, 4)],
                                              self, parent)
                    IN  case4_finish(s.m, s.parent, s.direction)
      ELSE
        [m EXCEPT !.heap[self].color = "Black", !.cases = Append(@, 1)]

\* RedBlackTreeNode::repair_tree
RECURSIVE repair_tree(_, _)
repair_tree(m, self) ==
  LET parent == position_parent(m.heap[self].position)
  IN  IF parent # Nil /\ m.heap[parent].color = "Black" THEN
        \* Insert case 2: parent is black, do nothing.
        [m EXCEPT !.cases = Append(@, 2)]
      ELSE IF parent # Nil THEN
        LET grandparent == position_parent(m.heap[parent].position)
        IN  IF grandparent = Nil THEN [m EXCEPT !.panic = TRUE]   \* expect()
            ELSE
              LET uncle == position_get(m, sibling(m.heap[parent].position))
              IN  IF node_color(m.heap, uncle) = "Red" THEN
                    repair_tree(
                      case3_recolor([m EXCEPT !.cases = Append(@, 3)],
                                    parent, uncle, grandparent),
                      grandparent)
                  ELSE
                    LET s == case4_straighten([m EXCEPT !.cases = Append(@, 4)],
                                              self, parent)
                    IN  case4_finish(s.m, s.parent, s.direction)
      ELSE
        \* Insert case 1: node is root; color black.
        [m EXCEPT !.heap[self].color = "Black", !.cases = Append(@, 1)]

----------------------------------------------------------------------------
\* Cursors

NoCursor == [kind |-> "none", node |-> Nil, position |-> RootPos]

\* TreeCursor::from_node / NodeCursor
NodeCursor(n) == [kind |-> "node", node |-> n, position |-> RootPos]

\* TreeCursor::leaf_from_position / LeafCursor
LeafCursor(pos) == [kind |-> "leaf", node |-> Nil, position |-> pos]

\* root() handing out a Leaf cursor whether or not the root slot is occupied.
root_cursor_leaf(r) == LeafCursor(RootPos)

\* RedBlackTree::root
root_cursor(r) == IF r = Nil THEN LeafCursor(RootPos) ELSE NodeCursor(r)

\* child() handing out a Leaf cursor whether or not the slot is occupied.
child_cursor_always_leaf(h, n, child_type) == LeafCursor(ChildPos(n, child_type))

\* NodeCursor::child
child_cursor(h, n, child_type) ==
  IF child(h, n, child_type) = Nil THEN LeafCursor(ChildPos(n, child_type))
  ELSE NodeCursor(child(h, n, child_type))

\* parent() that stays on the root instead of returning None.
parent_cursor_never_none(h, n) ==
  NodeCursor(IF is_root(h[n].position) THEN n ELSE h[n].position.ptr)

\* NodeCursor::parent (None is NoCursor)
parent_cursor(h, n) ==
  IF is_root(h[n].position) THEN NoCursor ELSE NodeCursor(h[n].position.ptr)

\* get() that finds nothing.
get_always_none(ix, key) == NoCursor

\* RedBlackTree::get (None is NoCursor)
get(ix, key) == IF key \in DOMAIN ix THEN NodeCursor(ix[key]) ELSE NoCursor

----------------------------------------------------------------------------
\* The mutating operations, as functions of the context.

\* Box::pin: every allocation is a fresh address, never one used before.
alloc(m) == m.allocated + 1

\* insert creating the node black.
insert_black(m, position, key) ==
  LET new == alloc(m)
      node == [key |-> key, color |-> "Black", position |-> position,
               left_child |-> Nil, right_child |-> Nil]
      m1 == [m EXCEPT !.heap = MapPut(m.heap, new, node), !.allocated = new]
      m2 == set_pinned(m1, position, new)
  IN  repair_tree([m2 EXCEPT !.nodes = MapPut(m2.nodes, key, new)], new)

\* insert without `self.nodes.insert(key, ...)`.
insert_unindexed(m, position, key) ==
  LET new == alloc(m)
      node == [key |-> key, color |-> "Red", position |-> position,
               left_child |-> Nil, right_child |-> Nil]
      m1 == [m EXCEPT !.heap = MapPut(m.heap, new, node), !.allocated = new]
  IN  repair_tree(set_pinned(m1, position, new), new)

\* LeafCursor::insert
insert(m, position, key) ==
  LET new == alloc(m)
      node == [key |-> key, color |-> "Red", position |-> position,
               left_child |-> Nil, right_child |-> Nil]
      m1 == [m EXCEPT !.heap = MapPut(m.heap, new, node), !.allocated = new]
      m2 == set_pinned(m1, position, new)
      m3 == [m2 EXCEPT !.nodes = MapPut(m2.nodes, key, new)]
  IN  repair_tree(m3, new)

\* delete without `r.color = Color::Black`.
delete_recolor_skipped(m, r, freed_is_root) ==
  IF r = Nil \/ freed_is_root THEN m ELSE [m EXCEPT !.panic = TRUE]

\* NodeCursor::delete, the recolouring of the replacement. The node has been
\* dropped by set_pinned when its position is read again, so what is_root()
\* yields is not determined by the program: freed_is_root is that reading.
delete_recolor(m, r, freed_is_root) ==
  IF r = Nil THEN m
  ELSE IF freed_is_root THEN [m EXCEPT !.heap[r].color = "Black"]
  ELSE [m EXCEPT !.panic = TRUE]   \* unimplemented!()

\* delete without `self.node_cache.remove(...)`.
delete_keeps_index(m, n, freed_is_root) ==
  IF m.heap[n].left_child # Nil /\ m.heap[n].right_child # Nil THEN
    [m EXCEPT !.panic = TRUE]
  ELSE
    LET ct == IF m.heap[n].left_child = Nil THEN "Right" ELSE "Left"
        m2 == [m EXCEPT !.heap = WithChild(m.heap, n, ct, Nil)]
        m3 == set_pinned(m2, m.heap[n].position, child(m.heap, n, ct))
    IN  delete_recolor(m3, position_get(m3, m.heap[n].position), freed_is_root)

\* NodeCursor::delete
delete(m, n, freed_is_root) ==
  LET position == m.heap[n].position
      m1 == [m EXCEPT !.nodes = MapRemove(m.nodes, {m.heap[n].key})]
  IN  IF m.heap[n].left_child # Nil /\ m.heap[n].right_child # Nil THEN
        [m1 EXCEPT !.panic = TRUE]   \* unimplemented!()
      ELSE
        LET ct == IF m.heap[n].left_child = Nil THEN "Right" ELSE "Left"
            replacement == child(m.heap, n, ct)
            m2 == [m1 EXCEPT !.heap = WithChild(m1.heap, n, ct, Nil)]   \* take()
            m3 == set_pinned(m2, position, replacement)
        IN  delete_recolor(m3, position_get(m3, position), freed_is_root)

\* swap re-inserting each node under the key it held before the exchange.
swap_nodes_stale_index(m, node1, node2) ==
  LET m1 == [m EXCEPT !.heap = [@ EXCEPT ![node1].key = m.heap[node2].key,
                                         ![node2].key = m.heap[node1].key]]
      m2 == [m1 EXCEPT !.nodes = MapPut(m1.nodes, m.heap[node1].key, node1)]
  IN  [m2 EXCEPT !.nodes = MapPut(m2.nodes, m.heap[node2].key, node2)]

\* swap exchanging the whole nodes' payload: the colours with the keys.
swap_nodes_and_colors(m, node1, node2) ==
  LET m1 == [m EXCEPT !.heap = [@ EXCEPT ![node1].key = m.heap[node2].key,
                                         ![node1].color = m.heap[node2].color,
                                         ![node2].key = m.heap[node1].key,
                                         ![node2].color = m.heap[node1].color]]
      m2 == [m1 EXCEPT !.nodes = MapPut(m1.nodes, m1.heap[node1].key, node1)]
  IN  [m2 EXCEPT !.nodes = MapPut(m2.nodes, m2.heap[node2].key, node2)]

\* swap copying the second node's key into the first instead of exchanging.
swap_nodes_copy_first(m, node1, node2) ==
  LET m1 == [m EXCEPT !.heap[node1].key = m.heap[node2].key]
      m2 == [m1 EXCEPT !.nodes = MapPut(m1.nodes, m1.heap[node1].key, node1)]
  IN  [m2 EXCEPT !.nodes = MapPut(m2.nodes, m2.heap[node2].key, node2)]

\* RedBlackTree::swap, after both nodes were taken out of the index.
swap_nodes(m, node1, node2) ==
  LET m1 == [m EXCEPT !.heap = [@ EXCEPT ![node1].key = m.heap[node2].key,
                                         ![node2].key = m.heap[node1].key]]
      m2 == [m1 EXCEPT !.nodes = MapPut(m1.nodes, m1.heap[node1].key, node1)]
  IN  [m2 EXCEPT !.nodes = MapPut(m2.nodes, m2.heap[node2].key, node2)]

\* swap that returns without effect when a key is not indexed.
swap_unchecked(m, key1, key2) ==
  IF key1 \notin DOMAIN m.nodes \/ key2 \notin DOMAIN m.nodes THEN m
  ELSE IF key1 = key2 THEN [m EXCEPT !.nodes = MapRemove(m.nodes, {key1}),
                                     !.panic = TRUE]
  ELSE swap_nodes([m EXCEPT !.nodes = MapRemove(m.nodes, {key1, key2})],
                  m.nodes[key1], m.nodes[key2])

\* RedBlackTree::swap
swap(m, key1, key2) ==
  IF key1 \notin DOMAIN m.nodes THEN [m EXCEPT !.panic = TRUE]   \* unwrap()
  ELSE
    LET node1 == m.nodes[key1]
        m1 == [m EXCEPT !.nodes = MapRemove(m.nodes, {key1})]
    IN  IF key2 \notin DOMAIN m1.nodes THEN [m1 EXCEPT !.panic = TRUE]   \* unwrap()
        ELSE
          LET node2 == m1.nodes[key2]
              m2 == [m1 EXCEPT !.nodes = MapRemove(m1.nodes, {key2})]
          IN  swap_nodes(m2, node1, node2)

----------------------------------------------------------------------------
\* The history record.

Op(op, k1, k2, pos, m) ==
  [op |-> op, key1 |-> k1, key2 |-> k2, position |-> pos,
   cases |-> m.cases, rotations |-> m.rotations]

Nav(op, k) ==
  [op |-> op, key1 |-> k, key2 |-> Nil, position |-> RootPos,
   cases |-> <<>>, rotations |-> 0]

\* The tree's fields after a handler ran in context m.
Commit(m) ==
  /\ root' = m.root
  /\ heap' = m.heap
  /\ nodes' = m.nodes
  /\ allocated' = m.allocated
  /\ aborted' = m.panic
  /\ UNCHANGED <<vec_vars, scan_vars>>

Init ==
  /\ root = Nil            \* RedBlackTree::new
  /\ nodes = EmptyMap
  /\ heap = EmptyMap
  /\ allocated = 0
  /\ cursor = NoCursor
  /\ aborted = FALSE
  /\ last = Nav("new", Nil)
  /\ values = <<Nil>> /\ written = EmptyMap
  /\ scan_cursor = Nil /\ events = {} /\ result = <<>>
  /\ queued = 0 /\ steps = 0

----------------------------------------------------------------------------
\* The operations of the API, one action each.

\* The cursor goes out of scope: its borrow of the tree ends.
Drop ==
  /\ ~aborted
  /\ cursor.kind # "none"
  /\ cursor' = NoCursor
  /\ last' = Nav("drop", Nil)
  /\ UNCHANGED <<root, nodes, heap, allocated, aborted, vec_vars, scan_vars>>

\* tree.root(): borrows the tree mutably, so no cursor is live.
Root ==
  /\ ~aborted
  /\ cursor.kind = "none"
  /\ cursor' = root_cursor(root)
  /\ last' = Nav("root", Nil)
  /\ UNCHANGED <<root, nodes, heap, allocated, aborted, vec_vars, scan_vars>>

\* tree.get(key): borrows the tree mutably, so no cursor is live.
Get(key) ==
  /\ ~aborted
  /\ cursor.kind = "none"
  /\ cursor' = get(nodes, key)
  /\ last' = Nav("get", key)
  /\ UNCHANGED <<root, nodes, heap, allocated, aborted, vec_vars, scan_vars>>

\* child() that takes the child out of its container.
Child_taking(child_type) ==
  /\ ~aborted
  /\ cursor.kind = "node"
  /\ cursor' = child_cursor(heap, cursor.node, child_type)
  /\ heap' = WithChild(heap, cursor.node, child_type, Nil)
  /\ last' = Nav("child", Nil)
  /\ UNCHANGED <<root, nodes, allocated, aborted, vec_vars, scan_vars>>

\* cursor.left_child() / cursor.right_child()
Child(child_type) ==
  /\ ~aborted
  /\ cursor.kind = "node"
  /\ cursor' = child_cursor(heap, cursor.node, child_type)
  /\ last' = Nav("child", Nil)
  /\ UNCHANGED <<root, nodes, heap, allocated, aborted, vec_vars, scan_vars>>

\* cursor.parent()
Parent ==
  /\ ~aborted
  /\ cursor.kind = "node"
  /\ cursor' = parent_cursor(heap, cursor.node)
  /\ last' = Nav("parent", Nil)
  /\ UNCHANGED <<root, nodes, heap, allocated, aborted, vec_vars, scan_vars>>

\* cursor.key()
Key ==
  /\ ~aborted
  /\ cursor.kind = "node"
  /\ last' = Nav("key", heap[cursor.node].key)
  /\ UNCHANGED <<root, nodes, heap, allocated, cursor, aborted, vec_vars, scan_vars>>

\* cursor.unwrap_node()
UnwrapNode ==
  /\ ~aborted
  /\ cursor.kind # "none"
  /\ aborted' = (cursor.kind = "leaf")   \* panic!("Expected node, got leaf.")
  /\ cursor' = IF cursor.kind = "leaf" THEN NoCursor ELSE cursor
  /\ last' = Nav("unwrap_node", Nil)
  /\ UNCHANGED <<root, nodes, heap, allocated, vec_vars, scan_vars>>

\* cursor.unwrap_leaf()
UnwrapLeaf ==
  /\ ~aborted
  /\ cursor.kind # "none"
  /\ aborted' = (cursor.kind = "node")   \* panic!("Expected leaf, got node.")
  /\ cursor' = IF cursor.kind = "node" THEN NoCursor ELSE cursor
  /\ last' = Nav("unwrap_leaf", Nil)
  /\ UNCHANGED <<root, nodes, heap, allocated, vec_vars, scan_vars>>

\* leaf.insert(key) on the leaf cursor c, in a run of at most `bound`
\* allocations; the cursor returned is on the new node.
InsertAt(c, key, bound) ==
  /\ ~aborted
  /\ c.kind = "leaf"
  /\ allocated < bound
  /\ LET m == insert(Ctx(root, heap, nodes, allocated), c.position, key)
     IN  /\ Commit(m)
         /\ cursor' = IF m.panic THEN NoCursor ELSE NodeCursor(m.allocated)
         /\ last' = Op("insert", key, Nil, c.position, m)

\* insert through a second cursor, taken from the root while the first is
\* still live.
Insert_second_cursor(key, bound) ==
  IF root = Nil THEN InsertAt(cursor, key, bound)
  ELSE InsertAt(child_cursor(heap, root, "Left"), key, bound)

\* cursor.insert(key)
Insert(key, bound) == InsertAt(cursor, key, bound)

\* c.delete() on the node cursor c; the cursor is consumed.
DeleteAt(c) ==
  /\ ~aborted
  /\ c.kind = "node"
  /\ \E freed_is_root \in BOOLEAN :
       LET m == delete(Ctx(root, heap, nodes, allocated), c.node, freed_is_root)
       IN  /\ Commit(m)
           /\ cursor' = NoCursor
           /\ last' = Op("delete", heap[c.node].key, Nil, heap[c.node].position, m)

\* cursor.delete()
Delete == DeleteAt(cursor)

\* tree.swap(key1, key2): borrows the tree mutably, so no cursor is live.
Swap(key1, key2) ==
  /\ ~aborted
  /\ cursor.kind = "none"
  /\ LET m == swap(Ctx(root, heap, nodes, allocated), key1, key2)
     IN  /\ Commit(m)
         /\ cursor' = NoCursor
         /\ last' = Op("swap", key1, key2, RootPos, m)

\* The key handles some node of the tree holds.
Held == {heap[n].key : n \in DOMAIN heap}

\* A caller of the whole API who keeps its key handles pairwise distinct.
Next ==
  \/ Drop
  \/ Root
  \/ \E key \in Keys : Get(key)
  \/ \E child_type \in {"Left", "Right"} : Child(child_type)
  \/ Parent
  \/ Key
  \/ UnwrapNode
  \/ UnwrapLeaf
  \/ \E key \in Keys \ Held : Insert(key, MaxNodes)
  \/ Delete
  \/ \E key1, key2 \in Keys : Swap(key1, key2)

Spec == Init /\ [][Next]_vars

----------------------------------------------------------------------------
\* A caller that only inserts: root(), any walk down to a leaf cursor,
\* insert there. Its key handles are fresh storage, one per insert; the
\* tree never reads through them.

\* The leaf cursors left_child()/right_child() reach from cursor c.
RECURSIVE leaf_cursors(_, _)
leaf_cursors(h, c) ==
  IF c.kind = "leaf" THEN {c}
  ELSE leaf_cursors(h, child_cursor(h, c.node, "Left"))
         \cup leaf_cursors(h, child_cursor(h, c.node, "Right"))

\* The node cursors left_child()/right_child() reach from cursor c.
RECURSIVE node_cursors(_, _)
node_cursors(h, c) ==
  IF c.kind = "leaf" THEN {}
  ELSE {c} \cup node_cursors(h, child_cursor(h, c.node, "Left"))
           \cup node_cursors(h, child_cursor(h, c.node, "Right"))

InsertFresh(bound) ==
  \E c \in leaf_cursors(heap, root_cursor(root)) : InsertAt(c, allocated + 1, bound)

InsertAnywhere == InsertFresh(MaxInsertNodes)

NextInsert == InsertAnywhere

SpecInsert == Init /\ [][NextInsert]_vars

----------------------------------------------------------------------------
\* A caller that inserts and deletes: root(), any walk down, then insert at
\* the leaf cursor or delete at the node cursor reached.

InsertSome == InsertFresh(MaxDeleteNodes)

DeleteAnywhere ==
  \E c \in node_cursors(heap, root_cursor(root)) : DeleteAt(c)

NextDelete == InsertSome \/ DeleteAnywhere

SpecDelete == Init /\ [][NextDelete]_vars

----------------------------------------------------------------------------
\* A caller that keeps the tree ordered by key value, as stress_test does:
\* from root(), left when the node's key is greater than the new key, right
\* otherwise, until a leaf cursor is reached; insert there.

\* The descent with the comparison turned round.
RECURSIVE bst_descend_flipped(_, _, _)
bst_descend_flipped(h, c, val) ==
  IF c.kind = "node" THEN
    IF h[c.node].key < val THEN
      bst_descend_flipped(h, child_cursor(h, c.node, "Left"), val)
    ELSE bst_descend_flipped(h, child_cursor(h, c.node, "Right"), val)
  ELSE c

RECURSIVE bst_descend(_, _, _)
bst_descend(h, c, val) ==
  IF c.kind = "node" THEN
    IF h[c.node].key > val THEN bst_descend(h, child_cursor(h, c.node, "Left"), val)
    ELSE bst_descend(h, child_cursor(h, c.node, "Right"), val)
  ELSE c

BSTInsert(val) ==
  InsertAt(bst_descend(heap, root_cursor(root), val), val, MaxBSTKeys)

NextBST == \E val \in (1..MaxBSTKeys) \ Held : BSTInsert(val)

SpecBST == Init /\ [][NextBST]_vars

----------------------------------------------------------------------------
\* A caller that inserts at the two ends of the sequence only, as
\* test_insert_rotate_left and test_insert_rotate_right do: from root(),
\* left_child() (or right_child()) until a leaf cursor is reached. Its trees
\* grow deep enough for repair to climb several levels.

\* The leaf cursor at the end of the chain of child_type children below c.
RECURSIVE end_cursor(_, _, _)
end_cursor(h, c, child_type) ==
  IF c.kind = "leaf" THEN c
  ELSE end_cursor(h, child_cursor(h, c.node, child_type), child_type)

InsertAtEnd ==
  \E child_type \in {"Left", "Right"} :
    InsertAt(end_cursor(heap, root_cursor(root), child_type), allocated + 1,
             MaxEndNodes)

NextEnds == InsertAtEnd

SpecEnds == Init /\ [][NextEnds]_vars

----------------------------------------------------------------------------
\* A caller that inserts without keeping its key handles distinct: insert
\* takes any &'tree T, also one a node of the tree holds already.

InsertAnyKey ==
  \E c \in leaf_cursors(heap, root_cursor(root)) : \E key \in Keys :
    InsertAt(c, key, MaxDupNodes)

NextDup == InsertAnyKey

SpecDup == Init /\ [][NextDup]_vars

----------------------------------------------------------------------------
\* ExpandingVector (src/src/data_structures/expanding_vec.rs). values is the
\* Vec<Option<T>>, element i of the Vec at place i + 1 of the sequence; None
\* is Nil, Some(v) is v.

Values == 1..NumValues

\* Vec::resize(n, None), for n not below the length.
resize(vs, n) == vs \o [k \in 1..(n - Len(vs)) |-> Nil]

\* index that yields the last element beyond the storage.
index_clamped(vs, i) == IF i >= Len(vs) THEN vs[Len(vs)] ELSE vs[i + 1]

\* Index::index
index(vs, i) == IF i >= Len(vs) THEN Nil ELSE vs[i + 1]

\* index_mut that grows the storage to fit the index.
index_mut_grow_to_fit(vs, i) ==
  IF i >= Len(vs) THEN [panic |-> FALSE, values |-> resize(vs, i + 1)]
  ELSE [panic |-> FALSE, values |-> vs]

\* IndexMut::index_mut: the storage after the call, or the failed assertion.
index_mut(vs, i) ==
  IF i >= Len(vs) THEN
    IF ~(i < Len(vs) * 2) THEN [panic |-> TRUE, values |-> vs]   \* assert!
    ELSE [panic |-> FALSE, values |-> resize(vs, Len(vs) * 2)]
  ELSE [panic |-> FALSE, values |-> vs]

VecOp(op, i, v) == [op |-> op, index |-> i, value |-> v]

\* v[i] = x
IndexWrite(i, x) ==
  /\ ~aborted
  /\ LET r == index_mut(values, i)
     IN  /\ aborted' = r.panic
         /\ values' = IF r.panic THEN r.values ELSE [r.values EXCEPT ![i + 1] = x]
         /\ written' = IF r.panic THEN written ELSE MapPut(written, i, x)
  /\ last' = VecOp("index_mut", i, x)
  /\ UNCHANGED <<tree_vars, scan_vars>>

\* v[i], read
IndexRead(i) ==
  /\ ~aborted
  /\ last' = VecOp("index", i, index(values, i))
  /\ UNCHANGED <<values, written, aborted, tree_vars, scan_vars>>

NextVec ==
  \/ \E i \in 0..MaxIndex : \E x \in Values \cup {Nil} : IndexWrite(i, x)
  \/ \E i \in 0..(2 * MaxIndex + 1) : IndexRead(i)

\* ExpandingVector::new is what Init gives: values = vec![None].
SpecVec == Init /\ [][NextVec]_vars

----------------------------------------------------------------------------
\* ScanState (src/src/scanlines.rs). A point is a number (its rank in the
\* order of points), a line the pair of its start and end.

Points == 1..NumPoints

\* Line::new_with_poly puts the lesser point first; a line may start and
\* end at one point.
Lines == {l \in Points \X Points : l[1] <= l[2]}

\* Scene::vertices: one vertex for each point a line of the scene starts or
\* ends at, with the lines starting and the lines ending there.
vertices(scene) ==
  {[point |-> q, start_lines |-> {l \in scene : l[1] = q},
    end_lines |-> {l \in scene : l[2] = q}] :
     q \in {l[1] : l \in scene} \cup {l[2] : l \in scene}}

VertexEvent(v) == [type |-> "VertexEvent", vertex |-> v]

\* An IntersectionEvent(point, line, line_event); no code of this source
\* queues one.
IntersectionEvent(q, line, line_event) ==
  [type |-> "IntersectionEvent", point |-> q, line |-> line,
   line_event |-> line_event]

\* What BinaryHeap::pop yields on the empty queue.
NoEvent == [type |-> "None"]

\* SceneEvent::point
point(e) == IF e.type = "VertexEvent" THEN e.vertex.point ELSE e.point

\* The lines of a BTreeSet in its order, each with the LineEvent given.
RECURSIVE line_events(_, _)
line_events(ls, line_event) ==
  IF ls = {} THEN <<>>
  ELSE LET first == CHOOSE l \in ls :
                      \A o \in ls : l[1] < o[1] \/ (l[1] = o[1] /\ l[2] <= o[2])
       IN  <<[line |-> first, event |-> line_event]>>
             \o line_events(ls \ {first}, line_event)

\* step that looks at the event without taking it off the queue.
step_keeps_event(ev, e) ==
  IF e.type = "VertexEvent" THEN
    [cursor |-> point(e), events |-> ev,
     result |-> line_events(e.vertex.start_lines, "Begin")
                  \o line_events(e.vertex.end_lines, "End")]
  ELSE IF e.type = "IntersectionEvent" THEN
    [cursor |-> point(e), events |-> ev,
     result |-> <<[line |-> e.line, event |-> e.line_event]>>]
  ELSE [cursor |-> Nil, events |-> ev, result |-> <<>>]

\* ScanState::step, e being what self.events.pop() yields.
step(ev, e) ==
  IF e.type = "VertexEvent" THEN
    [cursor |-> point(e), events |-> ev \ {e},
     result |-> line_events(e.vertex.start_lines, "Begin")
                  \o line_events(e.vertex.end_lines, "End")]
  ELSE IF e.type = "IntersectionEvent" THEN
    [cursor |-> point(e), events |-> ev \ {e},
     result |-> <<[line |-> e.line, event |-> e.line_event]>>]
  ELSE [cursor |-> Nil, events |-> ev, result |-> <<>>]

\* ScanState::done
done(ev) == ev = {}

\* BinaryHeap::pop: None on the empty queue, else the greatest event. The
\* order of vertex events is not given by this source (Vertex has no Ord
\* here), so any queued event may be the one.
pop(ev) == IF ev = {} THEN {NoEvent} ELSE ev

\* ScanState::new(scene), for any scene.
InitScan ==
  /\ root = Nil /\ nodes = EmptyMap /\ heap = EmptyMap /\ allocated = 0
  /\ cursor = NoCursor /\ aborted = FALSE
  /\ values = <<Nil>> /\ written = EmptyMap
  /\ \E scene \in SUBSET Lines :
       events = {VertexEvent(v) : v \in vertices(scene)}
  /\ scan_cursor = Nil
  /\ result = <<>>
  /\ queued = Cardinality(events)
  /\ steps = 0
  /\ last = [op |-> "new", event |-> NoEvent]

\* scan_state.step()
Step ==
  /\ ~aborted
  /\ steps < queued + ExtraSteps
  /\ \E e \in pop(events) :
       LET r == step(events, e)
       IN  /\ scan_cursor' = r.cursor
           /\ events' = r.events
           /\ result' = r.result
           /\ last' = [op |-> "step", event |-> e]
  /\ steps' = steps + 1
  /\ UNCHANGED <<queued, aborted, tree_vars, vec_vars>>

NextScan == Step

SpecScan == InitScan /\ [][NextScan]_vars

----------------------------------------------------------------------------
\* What the tests' checkers compute (check_tree_node, check_bst, expect_tree).

\* The nodes reachable from the root.
Reachable == Owned(heap, root)

\* The numbers of black nodes on the paths from n down to an empty slot.
RECURSIVE BlackCounts(_, _)
BlackCounts(h, n) ==
  IF n = Nil THEN {0}
  ELSE {d + (IF h[n].color = "Black" THEN 1 ELSE 0) :
          d \in BlackCounts(h, h[n].left_child) \cup BlackCounts(h, h[n].right_child)}

\* Property 5: the same number of black nodes on every path below a node.
BlackHeightOK == \A n \in Reachable : Cardinality(BlackCounts(heap, n)) = 1

\* Property 4: a red node has no red child.
NoRedRed ==
  \A n \in Reachable :
    heap[n].color = "Red" =>
      /\ node_color(heap, heap[n].left_child) = "Black"
      /\ node_color(heap, heap[n].right_child) = "Black"

\* Property 2: the root is black.
RootBlack == root # Nil => heap[root].color = "Black"

\* Invariant 1: a node's position is the slot it is found in.
PositionOK ==
  /\ root # Nil => heap[root].position = RootPos
  /\ \A n \in Reachable : \A ct \in {"Left", "Right"} :
       child(heap, n, ct) # Nil => heap[child(heap, n, ct)].position = ChildPos(n, ct)

\* Invariants 2 and 3: the node cache and the tree are in bijection.
IndexOK ==
  /\ \A n \in Reachable : heap[n].key \in DOMAIN nodes /\ nodes[heap[n].key] = n
  /\ \A k \in DOMAIN nodes : nodes[k] \in Reachable /\ heap[nodes[k]].key = k

\* The key handles of the subtree at n.
SubKeys(h, n) == {h[x].key : x \in Owned(h, n)}

\* check_bst: smaller keys to the left, larger keys to the right.
BSTOrdered ==
  \A n \in Reachable :
    /\ \A k \in SubKeys(heap, heap[n].left_child) : k < heap[n].key
    /\ \A k \in SubKeys(heap, heap[n].right_child) : k > heap[n].key

\* The in-order sequence of the subtree in slot pos (holding n): its key
\* handles, and its empty slots where they lie.
RECURSIVE InOrderSlots(_, _, _)
InOrderSlots(h, n, pos) ==
  IF n = Nil THEN <<[leaf |-> TRUE, key |-> Nil, position |-> pos]>>
  ELSE InOrderSlots(h, h[n].left_child, ChildPos(n, "Left"))
         \o <<[leaf |-> FALSE, key |-> h[n].key, position |-> pos]>>
         \o InOrderSlots(h, h[n].right_child, ChildPos(n, "Right"))

\* The in-order sequence of key handles.
InOrder(h, r) ==
  LET s == SelectSeq(InOrderSlots(h, r, RootPos), LAMBDA e : ~e.leaf)
  IN  [i \in 1..Len(s) |-> s[i].key]

\* The in-order sequence with `key` put at the place of the empty slot pos.
InOrderWith(h, r, pos, key) ==
  LET s == SelectSeq(InOrderSlots(h, r, RootPos),
                     LAMBDA e : ~e.leaf \/ e.position = pos)
  IN  [i \in 1..Len(s) |-> IF s[i].leaf THEN key ELSE s[i].key]

----------------------------------------------------------------------------
\* The claims.

\* C1: after any sequence of inserts (any reachable empty slot, distinct key
\* handles) from an empty tree, every node has the same number of black
\* nodes on each path down to an empty slot.
C1_BlackHeight == ~aborted /\ BlackHeightOK

\* C1 witness: an insert whose repair recoloured (case 3) and then rotated
\* once at the grandparent (case 4, straight).
C1_Witness ==
  last.op = "insert" /\ last.cases = <<3, 4>> /\ last.rotations = 1

\* C2: after any sequence of inserts from an empty tree no red node has a
\* red child.
C2_NoRedRed == ~aborted /\ NoRedRed

\* C2 witness: an insert whose repair recoloured (case 3) and stopped at a
\* red grandparent under a black node (case 2).
C2_Witness ==
  /\ last.op = "insert" /\ last.cases = <<3, 2>>
  /\ \E n \in Reachable : heap[n].color = "Red" /\ heap[n].left_child # Nil

\* C3: after inserts and deletes that return normally the root, if there is
\* one, is black; an insert into the empty tree leaves a single black root
\* without children, holding the inserted key.
C3_RootBlack ==
  ~aborted =>
    /\ RootBlack
    /\ (last.op = "insert" /\ last.position = RootPos) =>
         /\ root # Nil
         /\ DOMAIN heap = {root}
         /\ heap[root].key = last.key1
         /\ heap[root].color = "Black"
         /\ heap[root].left_child = Nil /\ heap[root].right_child = Nil

\* C3 witness: the root was deleted and its only child, which has a child
\* of its own, is the root now.
C3_Witness ==
  /\ ~aborted /\ last.op = "delete" /\ last.position = RootPos /\ root # Nil
  /\ Cardinality(Reachable) >= 2

\* C4: after every insert, delete and swap that returns normally (distinct
\* key handles) every node reachable from the root is indexed under the
\* key handle it holds, and the index has no other entry.
C4_IndexBijection == ~aborted => IndexOK

\* C4 witness: a swap returned normally in a tree of two nodes from which
\* a third was deleted before.
C4_Witness ==
  /\ ~aborted /\ last.op = "swap" /\ last.key1 # last.key2
  /\ Cardinality(Reachable) = 2 /\ allocated = 3

\* C5: after every insert (rotations included), delete and swap that
\* returns normally each node's position is the slot that holds it.
C5_PositionConsistent == ~aborted => PositionOK

\* C5 witness: an insert that rotated twice (zig-zag), so that all three
\* nodes changed slot.
C5_Witness ==
  /\ ~aborted /\ last.op = "insert" /\ last.rotations = 2
  /\ heap[root].left_child # Nil /\ heap[root].right_child # Nil

\* C6: an insert puts the key at the in-order place of its slot and leaves
\* the in-order sequence otherwise as it was, whichever repair case runs.
C6_InOrderPreserved ==
  [][last'.op = "insert" =>
       /\ ~aborted'
       /\ InOrder(heap', root') = InOrderWith(heap, root, last'.position, last'.key1)]_vars

\* C6 witness: an insert whose repair recoloured (case 3) and then rotated
\* twice (case 4, zig-zag) around subtrees that are not empty.
C6_Witness ==
  last.op = "insert" /\ last.cases = <<3, 4>> /\ last.rotations = 2

\* C7: inserting distinct keys by comparison-driven descent yields a binary
\* search tree that satisfies the red-black, position and index invariants.
C7_BSTInsert ==
  /\ ~aborted
  /\ BSTOrdered
  /\ RootBlack /\ NoRedRed /\ BlackHeightOK
  /\ PositionOK
  /\ IndexOK

\* C7 witness: all keys are in, the last by an insert that rotated twice.
C7_Witness ==
  /\ last.op = "insert" /\ last.rotations = 2
  /\ Cardinality(Reachable) >= 6
  /\ Len(InOrder(heap, root)) = Cardinality(Reachable)

\* C8: swap(k1, k2) with both indexed and k1 # k2 exchanges the two nodes'
\* key handles and re-points the two index entries, and changes nothing else.
C8_SwapFrame ==
  [][(/\ last'.op = "swap" /\ last'.key1 # last'.key2
      /\ last'.key1 \in DOMAIN nodes /\ last'.key2 \in DOMAIN nodes) =>
       LET k1 == last'.key1
           k2 == last'.key2
       IN  /\ ~aborted'
           /\ root' = root
           /\ heap' = [heap EXCEPT ![nodes[k1]].key = k2, ![nodes[k2]].key = k1]
           /\ nodes' = [nodes EXCEPT ![k1] = nodes[k2], ![k2] = nodes[k1]]]_vars

\* C8 witness: a swap of two distinct indexed keys returned normally in a
\* tree of at least three nodes.
C8_Witness ==
  /\ ~aborted /\ last.op = "swap" /\ last.key1 # last.key2
  /\ Cardinality(Reachable) >= 3
  /\ nodes[last.key1] # root /\ nodes[last.key2] # root

\* C9 (as claimed): delete() on a node with at most one child returns
\* normally, root or not, and the node's slot then holds the sole child
\* (its subtree intact, its position that slot) or is empty.
C9_DeleteAtMostOneChild ==
  [][(/\ last'.op = "delete"
      /\ \E ct \in {"Left", "Right"} :
           child(heap, position_get([root |-> root, heap |-> heap], last'.position), ct) = Nil) =>
       LET pos == last'.position
           n == position_get([root |-> root, heap |-> heap], pos)
           c == IF heap[n].left_child = Nil THEN heap[n].right_child
                ELSE heap[n].left_child
       IN  /\ ~aborted'
           /\ position_get([root |-> root', heap |-> heap'], pos) = c
           /\ c # Nil =>
                /\ heap'[c].position = pos
                /\ heap'[c].left_child = heap[c].left_child
                /\ heap'[c].right_child = heap[c].right_child
                /\ \A x \in Owned(heap, c) \ {c} : heap'[x] = heap[x]]_vars

\* C10 (as claimed): after inserts and deletes that return normally
\* black-height consistency and the no-red-red rule hold for every node.
C10_InvariantsAfterDelete == ~aborted => (BlackHeightOK /\ NoRedRed)

\* C11 (as claimed): delete() on a node with two children aborts, and at the
\* point of the abort the tree (shape, colours, positions) and the index,
\* the entry of the node's own key included, are as they were before.
C11_DeleteTwoChildrenRejected ==
  [][(/\ last'.op = "delete"
      /\ LET n == position_get([root |-> root, heap |-> heap], last'.position)
         IN  heap[n].left_child # Nil /\ heap[n].right_child # Nil) =>
       /\ aborted'
       /\ root' = root
       /\ heap' = heap
       /\ nodes' = nodes]_vars

\* C12: when delete() of the node holding k returns normally, k was indexed
\* and is not any more (get(k) is None), and the index is otherwise as it
\* was: one entry fewer, every other key handle on the node it was on.
C12_DeleteRemovesIndexEntry ==
  [][(last'.op = "delete" /\ ~aborted') =>
       /\ last'.key1 \in DOMAIN nodes
       /\ get(nodes', last'.key1) = NoCursor
       /\ Cardinality(DOMAIN nodes') = Cardinality(DOMAIN nodes) - 1
       /\ \A k \in DOMAIN nodes \ {last'.key1} :
            k \in DOMAIN nodes' /\ nodes'[k] = nodes[k]]_vars

\* C12 witness: a childless node below the root was deleted and at least
\* three other keys are still indexed.
C12_Witness ==
  /\ ~aborted /\ last.op = "delete" /\ last.position # RootPos
  /\ Cardinality(DOMAIN nodes) >= 3
  /\ last.key1 \notin DOMAIN nodes

C14_SwapUnindexedAborts ==
  [][(/\ last'.op = "swap"
      /\ (last'.key1 \notin DOMAIN nodes \/ last'.key2 \notin DOMAIN nodes)) =>
       aborted']_vars

\* C14 witness: swap aborted on a second key that is not indexed, the first
\* being held by a node of the tree.
C14_Witness ==
  /\ aborted /\ last.op = "swap"
  /\ last.key1 \in Held /\ last.key2 \notin Held

\* C15: get(k) on a key handle that is not indexed returns None, does not
\* abort and changes neither tree nor index; on an indexed key handle it
\* returns a cursor on a node whose key() is k.
C15_Get ==
  [][last'.op = "get" =>
       /\ ~aborted'
       /\ root' = root /\ heap' = heap /\ nodes' = nodes
       /\ IF last'.key1 \in DOMAIN nodes
            THEN /\ cursor'.kind = "node"
                 /\ cursor'.node \in DOMAIN heap
                 /\ heap[cursor'.node].key = last'.key1
            ELSE cursor' = NoCursor]_vars

\* C15 witness: get returned None for a key handle that was deleted from a
\* tree that still has nodes.
C15_Witness ==
  /\ last.op = "get" /\ cursor = NoCursor
  /\ last.key1 \notin DOMAIN nodes
  /\ root # Nil /\ allocated >= 2

\* C16: insert(key) returns a NodeCursor on the node it created: the
\* cursor's key() is the inserted key handle and get(key) is a cursor on the
\* same node, whichever repair case ran and wherever rotations put the node.
C16_InsertReturnsCursor ==
  last.op = "insert" =>
    /\ ~aborted
    /\ cursor.kind = "node"
    /\ cursor.node \in Reachable
    /\ heap[cursor.node].key = last.key1
    /\ get(nodes, last.key1) = cursor

\* C16 witness: the insert rotated twice and the slot the leaf cursor
\* designated now holds another node than the new one.
C16_Witness ==
  /\ last.op = "insert" /\ last.rotations = 2
  /\ Cardinality(Reachable) >= 5
  /\ position_get([root |-> root, heap |-> heap], last.position) # cursor.node

\* C17: three keys inserted as a chain below an empty tree (the root, a child
\* of the root, a child of that child) give, for each of the four shapes, a
\* tree of three nodes: the in-order middle key at the root, black, the two
\* other keys its red left and right children, childless.
C17_ThreeChain ==
  [][(/\ last'.op = "insert" /\ Cardinality(DOMAIN heap) = 2
      /\ last'.position.tag = "Child" /\ last'.position.ptr # root) =>
       LET s == InOrderWith(heap, root, last'.position, last'.key1)
           l == heap'[root'].left_child
           r == heap'[root'].right_child
       IN  /\ ~aborted'
           /\ Len(s) = 3
           /\ root' # Nil /\ l # Nil /\ r # Nil
           /\ DOMAIN heap' = {root', l, r}
           /\ heap'[root'].key = s[2] /\ heap'[root'].color = "Black"
           /\ heap'[l].key = s[1] /\ heap'[l].color = "Red"
           /\ heap'[r].key = s[3] /\ heap'[r].color = "Red"
           /\ heap'[l].left_child = Nil /\ heap'[l].right_child = Nil
           /\ heap'[r].left_child = Nil /\ heap'[r].right_child = Nil]_vars

\* C17 witness: the left-right chain, repaired by two rotations: the key
\* inserted last is at the root.
C17_Witness ==
  /\ last.op = "insert" /\ Cardinality(DOMAIN heap) = 3
  /\ last.position.tag = "Child" /\ last.position.ct = "Right"
  /\ last.rotations = 2
  /\ heap[root].key = last.key1
  /\ heap[heap[root].left_child].key = 2 /\ heap[heap[root].right_child].key = 1

\* C18: a freshly constructed tree is empty and has no index entries;
\* root() returns the Leaf variant at the root slot exactly when the tree
\* is empty and the Node variant, on the root node, exactly when it is not.
C18_RootCursor ==
  /\ last.op = "new" => (root = Nil /\ DOMAIN nodes = {} /\ DOMAIN heap = {})
  /\ last.op = "root" =>
       /\ ~aborted
       /\ (cursor.kind = "node") = (root # Nil)
       /\ (cursor.kind = "leaf") = (root = Nil)
       /\ cursor.kind = "node" => cursor.node = root
       /\ cursor.kind = "leaf" => cursor.position = RootPos

\* C18 witness: root() returned the Leaf variant on a tree that had a node
\* before and was emptied by delete.
C18_Witness ==
  last.op = "root" /\ cursor.kind = "leaf" /\ allocated >= 1

\* C19: parent() is None exactly on the root; and whenever the child cursor
\* of a node n on a side is a Node cursor, parent() on it is a cursor on n.
\* This in every tree inserts (rotations included) and deletes lead to.
C19_ParentOfChild ==
  ~aborted =>
    \A n \in Reachable :
      /\ (parent_cursor(heap, n) = NoCursor) = (n = root)
      /\ \A s \in {"Left", "Right"} :
           child_cursor(heap, n, s).kind = "node" =>
             parent_cursor(heap, child_cursor(heap, n, s).node) = NodeCursor(n)

\* C19 witness: an insert rotated twice in a tree of at least five nodes.
C19_Witness ==
  /\ ~aborted /\ last.op = "insert" /\ last.rotations = 2
  /\ Cardinality(Reachable) >= 5

\* C20: unwrap_node aborts on the Leaf variant and unwrap_leaf on the Node
\* variant, and otherwise each returns the cursor it holds; so the slot an
\* insert is applied to is empty and no node is overwritten by an insert.
C20_UnwrapGuardsInsert ==
  [][/\ last'.op = "unwrap_node" =>
          /\ aborted' = (cursor.kind = "leaf")
          /\ ~aborted' => cursor' = cursor
     /\ last'.op = "unwrap_leaf" =>
          /\ aborted' = (cursor.kind = "node")
          /\ ~aborted' => cursor' = cursor
     /\ last'.op = "insert" =>
          /\ position_get([root |-> root, heap |-> heap], last'.position) = Nil
          /\ DOMAIN heap \subseteq DOMAIN heap'
          /\ \A n \in DOMAIN heap : heap'[n].key = heap[n].key]_vars

\* C20 witness: unwrap_leaf aborted on a Node cursor.
C20_Witness ==
  aborted /\ last.op = "unwrap_leaf" /\ root # Nil

C22_CaseTwoFrame ==
  [][(/\ last'.op = "insert" /\ last'.position.tag = "Child"
      /\ heap[last'.position.ptr].color = "Black") =>
       LET pos == last'.position
           new == cursor'.node
       IN  /\ ~aborted'
           /\ last'.cases = <<2>>
           /\ root' = root
           /\ new \notin DOMAIN heap
           /\ heap' = MapPut(WithChild(heap, pos.ptr, pos.ct, new), new,
                             [key |-> last'.key1, color |-> "Red",
                              position |-> pos,
                              left_child |-> Nil, right_child |-> Nil])]_vars

\* C22 witness: a case 2 insert below a black node that is not the root.
C22_Witness ==
  /\ last.op = "insert" /\ last.cases = <<2>>
  /\ last.position.tag = "Child" /\ last.position.ptr # root
  /\ heap[last.position.ptr].color = "Black"

\* C23: when a key is inserted below a red node whose sibling is red too
\* (repair case 3), parent and uncle become black and the grandparent red
\* without any rotation, and repair then runs at the grandparent: the tree
\* is what repair at the grandparent makes of that recoloured tree, and the
\* grandparent ends black if it is the root.
C23_CaseThree ==
  [][(/\ last'.op = "insert" /\ last'.position.tag = "Child"
      /\ heap[last'.position.ptr].color = "Red"
      /\ heap[last'.position.ptr].position.tag = "Child"
      /\ node_color(heap, position_get([root |-> root, heap |-> heap],
                      sibling(heap[last'.position.ptr].position))) = "Red") =>
       LET pos == last'.position
           new == cursor'.node
           p == pos.ptr
           g == heap[p].position.ptr
           u == position_get([root |-> root, heap |-> heap], sibling(heap[p].position))
           placed == MapPut(WithChild(heap, p, pos.ct, new), new,
                            [key |-> last'.key1, color |-> "Red", position |-> pos,
                             left_child |-> Nil, right_child |-> Nil])
           recoloured == [placed EXCEPT ![p].color = "Black", ![u].color = "Black",
                                        ![g].color = "Red"]
           rest == repair_tree([root |-> root, heap |-> recoloured, nodes |-> nodes',
                                allocated |-> allocated', panic |-> FALSE,
                                cases |-> <<3>>, rotations |-> 0], g)
       IN  /\ ~aborted'
           /\ last'.cases[1] = 3 /\ Len(last'.cases) >= 2
           /\ heap' = rest.heap /\ root' = rest.root
           /\ last'.cases = rest.cases /\ last'.rotations = rest.rotations
           /\ heap'[p].color = "Black" /\ heap'[u].color = "Black"
           /\ (g = root) = (last'.cases = <<3, 1>>)
           /\ g = root => heap'[g].color = "Black"
           /\ last'.cases[2] \in {2, 3} => heap'[g].color = "Red"]_vars

\* C23 witness: a case 3 insert whose grandparent is not the root and stays
\* red under a black node.
C23_Witness ==
  /\ last.op = "insert" /\ last.cases = <<3, 2>>
  /\ heap[heap[last.position.ptr].position.ptr].color = "Red"
  /\ heap[last.position.ptr].color = "Black"

\* The position at which the k-th repair invocation of an insert at the
\* empty slot pos runs: the slot itself, then each time the grandparent's.
RECURSIVE RepairPosition(_, _, _)
RepairPosition(h, pos, k) ==
  IF k <= 1 THEN pos
  ELSE LET below == RepairPosition(h, pos, k - 1)
       IN  h[h[below.ptr].position.ptr].position

\* C24: repair case 4 (the node red, its parent red, the uncle black or
\* absent) is the last repair step of its insert and leaves, in the slot that
\* held the grandparent, a black node (the parent if node and parent were on
\* the same side, else the node itself) whose child on the side opposite the
\* parent's branch is the former grandparent, now red.
C24_CaseFour ==
  [][/\ (/\ last'.op = "insert" /\ last'.position.tag = "Child"
         /\ heap[last'.position.ptr].color = "Red"
         /\ node_color(heap, position_get([root |-> root, heap |-> heap],
                         sibling(heap[last'.position.ptr].position))) = "Black") =>
          last'.cases = <<4>>
     /\ (/\ last'.op = "insert"
         /\ \E i \in 1..Len(last'.cases) : last'.cases[i] = 4) =>
          LET k == Len(last'.cases)
              spos == RepairPosition(heap, last'.position, k)
              self == IF k = 1 THEN cursor'.node
                      ELSE position_get([root |-> root, heap |-> heap], spos)
              p == spos.ptr
              pct == heap[p].position.ct
              g == heap[p].position.ptr
              gpos == heap[g].position
              top == position_get([root |-> root', heap |-> heap'], gpos)
          IN  /\ ~aborted'
              /\ last'.cases[k] = 4
              /\ \A i \in 1..(k - 1) : last'.cases[i] = 3
              /\ top = (IF spos.ct = pct THEN p ELSE self)
              /\ heap'[top].color = "Black"
              /\ heap'[top].position = gpos
              /\ child(heap', top, flip(pct)) = g
              /\ heap'[g].color = "Red"
              /\ heap'[g].position = ChildPos(top, flip(pct))]_vars

\* C24 witness: case 4 ran in the zig-zag shape at the grandparent of the
\* new node, after a case 3 step: that grandparent is on top now, black,
\* between its former parent and grandparent, both red.
C24_Witness ==
  /\ last.op = "insert" /\ last.cases = <<3, 4>> /\ last.rotations = 2
  /\ \E t \in Reachable :
       /\ heap[t].color = "Black"
       /\ node_color(heap, heap[t].left_child) = "Red"
       /\ node_color(heap, heap[t].right_child) = "Red"
       /\ heap[cursor.node].position.ptr \in
            {heap[heap[t].left_child].right_child, heap[heap[t].right_child].left_child}

\* C25: rotate(D) on a node x whose child c on the side opposite D exists
\* puts c in the slot x was in, makes x the child of c on side D and c's
\* former child on side D the child of x on the side opposite D; every
\* other link, every colour and key, and the index are unchanged.
C25_RotateContract ==
  ~aborted =>
    \A x \in Reachable : \A D \in {"Left", "Right"} :
      child(heap, x, flip(D)) # Nil =>
        LET c == child(heap, x, flip(D))
            b == child(heap, c, D)
            pos == heap[x].position
            m == rotate(Ctx(root, heap, nodes, allocated), x, D)
        IN  /\ ~m.panic
            /\ position_get(m, pos) = c
            /\ m.heap[c].position = pos
            /\ child(m.heap, c, D) = x
            /\ m.heap[x].position = ChildPos(c, D)
            /\ child(m.heap, x, flip(D)) = b
            /\ b # Nil => m.heap[b] = [heap[b] EXCEPT !.position = ChildPos(x, flip(D))]
            /\ child(m.heap, x, D) = child(heap, x, D)
            /\ child(m.heap, c, flip(D)) = child(heap, c, flip(D))
            /\ DOMAIN m.heap = DOMAIN heap
            /\ \A n \in DOMAIN heap :
                 m.heap[n].color = heap[n].color /\ m.heap[n].key = heap[n].key
            /\ \A n \in DOMAIN heap \ {x, c, b, position_parent(pos)} :
                 m.heap[n] = heap[n]
            /\ pos.tag = "Child" =>
                 /\ m.root = root
                 /\ m.heap[pos.ptr] = [heap[pos.ptr] EXCEPT
                      !.left_child = IF pos.ct = "Left" THEN c ELSE @,
                      !.right_child = IF pos.ct = "Right" THEN c ELSE @]
            /\ m.nodes = nodes
            /\ m.rotations = 1

\* C25 witness: an insert rotated a node once, and a subtree changed sides
\* between the two nodes of the rotation.
C25_Witness ==
  /\ last.op = "insert" /\ last.cases = <<3, 4>> /\ last.rotations = 1
  /\ \E x \in Reachable : \E D \in {"Left", "Right"} :
       /\ child(heap, x, D) # Nil /\ heap[child(heap, x, D)].color = "Red"
       /\ child(heap, child(heap, x, D), flip(D)) # Nil
       /\ child(heap, x, flip(D)) # Nil

\* C26: an insert leaves every key handle that was indexed on the node it
\* was on, whatever rotations and recolourings repair does; the one change
\* of the index is the entry added for the new key, on the new node.
C26_IndexUntouchedByRepair ==
  [][last'.op = "insert" =>
       /\ last'.key1 \notin DOMAIN nodes
       /\ cursor'.node \notin DOMAIN heap
       /\ nodes' = MapPut(nodes, last'.key1, cursor'.node)
       /\ \A k \in DOMAIN nodes :
            /\ nodes'[k] = nodes[k]
            /\ heap'[nodes'[k]].key = k]_vars

\* C26 witness: an insert rotated twice at the root of a tree of at least
\* six nodes, all of them indexed.
C26_Witness ==
  /\ last.op = "insert" /\ last.rotations = 2
  /\ Cardinality(DOMAIN nodes) >= 6
  /\ heap[cursor.node].position.tag = "Child"
  /\ heap[cursor.node].position.ptr # root

\* C27: an insert adds exactly one node: one more node is reachable from
\* the root, every key handle held before is held by exactly one node, as is
\* the new one; and no other step (navigation, get, swap, delete) adds one.
C27_NodeCount ==
  [][/\ last'.op = "insert" =>
          /\ ~aborted'
          /\ Cardinality(Owned(heap', root')) = Cardinality(Reachable) + 1
          /\ Owned(heap', root') = Reachable \cup {cursor'.node}
          /\ \A k \in Held \cup {last'.key1} :
               Cardinality({n \in Owned(heap', root') : heap'[n].key = k}) = 1
     /\ last'.op # "insert" =>
          /\ Owned(heap', root') \subseteq Reachable
          /\ DOMAIN heap' \subseteq DOMAIN heap]_vars

\* C27 witness: the third node was inserted and repair rotated once.
C27_Witness ==
  /\ ~aborted /\ last.op = "insert" /\ last.rotations = 1
  /\ Cardinality(Reachable) = 3 /\ Cardinality(DOMAIN nodes) = 3

\* The depth of a slot: 0 for the root slot, one more than its node's for
\* a child slot.
RECURSIVE Depth(_, _)
Depth(h, pos) == IF pos.tag = "Root" THEN 0 ELSE 1 + Depth(h, h[pos.ptr].position)

\* C28: repair terminates: every invocation but the last is a case 3 (which
\* goes on at the grandparent), the last is a case 1, 2 or 4, and their
\* number is at most one more than half the depth of the inserted node.
C28_RepairTerminates ==
  [][last'.op = "insert" =>
       LET k == Len(last'.cases)
       IN  /\ ~aborted'
           /\ k >= 1
           /\ \A i \in 1..(k - 1) : last'.cases[i] = 3
           /\ last'.cases[k] \in {1, 2, 4}
           /\ 2 * (k - 1) <= Depth(heap, last'.position)
           /\ \A i \in 1..k :
                Depth(heap, RepairPosition(heap, last'.position, i))
                  = Depth(heap, last'.position) - 2 * (i - 1)]_vars

\* C28 witness: a node inserted at depth 4 was repaired by three
\* invocations, the third at the root.
C28_Witness ==
  /\ last.op = "insert" /\ last.cases = <<3, 3, 1>>
  /\ Depth(heap, last.position) = 4

\* C29: an insert rotates at most twice, and only in a case 4 invocation,
\* which is its last; an insert whose repair has no case 4 leaves every link
\* of the tree as it was but for the new node in its slot.
C29_AtMostTwoRotations ==
  [][last'.op = "insert" =>
       LET k == Len(last'.cases)
           pos == last'.position
           new == cursor'.node
       IN  /\ last'.rotations <= 2
           /\ (last'.rotations > 0) = (last'.cases[k] = 4)
           /\ \A i \in 1..(k - 1) : last'.cases[i] # 4
           /\ last'.cases[k] # 4 =>
                /\ root' = (IF pos.tag = "Root" THEN new ELSE root)
                /\ heap'[new].position = pos
                /\ \A n \in DOMAIN heap :
                     /\ heap'[n].position = heap[n].position
                     /\ \A ct \in {"Left", "Right"} :
                          child(heap', n, ct) =
                            IF pos = ChildPos(n, ct) THEN new ELSE child(heap, n, ct)]_vars

\* C29 witness: an insert recoloured at the first level and rotated twice
\* at the second, in a tree of eight nodes.
C29_Witness ==
  /\ last.op = "insert" /\ last.cases = <<3, 4>> /\ last.rotations = 2
  /\ Cardinality(Reachable) = 8

\* C30 (as claimed): swap(k, k) with k indexed returns normally and leaves
\* the tree and the index unchanged.
C30_SwapSameKey ==
  [][(/\ last'.op = "swap" /\ last'.key1 = last'.key2
      /\ last'.key1 \in DOMAIN nodes) =>
       /\ ~aborted'
       /\ root' = root /\ heap' = heap /\ nodes' = nodes]_vars

\* C31 (as claimed): a swap that aborts because a key handle is not indexed
\* has no partial effect: at the abort the index holds the entries it held
\* before the call and no node's key has changed.
C31_SwapAbortNoPartialEffect ==
  [][(/\ last'.op = "swap" /\ aborted'
      /\ (last'.key1 \notin DOMAIN nodes \/ last'.key2 \notin DOMAIN nodes)) =>
       /\ nodes' = nodes
       /\ root' = root
       /\ \A n \in DOMAIN heap : n \in DOMAIN heap' /\ heap'[n].key = heap[n].key]_vars

\* C32 (as claimed): after any sequence of inserts, one that inserts again a
\* key handle a node of the tree holds included, the index has as many
\* entries as there are nodes reachable from the root.
C32_IndexSizeWithDuplicates ==
  ~aborted /\ Cardinality(DOMAIN nodes) = Cardinality(Reachable)

\* C33: for indexed k1 # k2, swap(k1, k2) twice restores tree and index
\* exactly, and swap(k1, k2) gives the state swap(k2, k1) gives.
C33_SwapInvolution ==
  ~aborted =>
    \A k1, k2 \in DOMAIN nodes :
      k1 # k2 =>
        LET m == Ctx(root, heap, nodes, allocated)
            once == swap(m, k1, k2)
            twice == swap(once, k1, k2)
            other == swap(m, k2, k1)
        IN  /\ ~once.panic /\ ~twice.panic /\ ~other.panic
            /\ once.heap # heap /\ once.nodes # nodes
            /\ twice.root = root /\ twice.heap = heap /\ twice.nodes = nodes
            /\ other.root = once.root /\ other.heap = once.heap
            /\ other.nodes = once.nodes

\* C33 witness: the key of the root was swapped with the key of a child in
\* a tree of three nodes.
C33_Witness ==
  /\ ~aborted /\ last.op = "swap" /\ last.key1 # last.key2
  /\ Cardinality(Reachable) = 3
  /\ heap[root].key = last.key2

\* The greatest number of nodes on a path from n down to an empty slot.
RECURSIVE LongestPath(_, _)
LongestPath(h, n) ==
  IF n = Nil THEN 0
  ELSE LET l == LongestPath(h, h[n].left_child)
           r == LongestPath(h, h[n].right_child)
       IN  1 + (IF l >= r THEN l ELSE r)

\* The least number of nodes on a path from n down to an empty slot.
RECURSIVE ShortestPath(_, _)
ShortestPath(h, n) ==
  IF n = Nil THEN 0
  ELSE LET l == ShortestPath(h, h[n].left_child)
           r == ShortestPath(h, h[n].right_child)
       IN  1 + (IF l <= r THEN l ELSE r)

\* C34: after any sequence of inserts the longest path from the root to an
\* empty slot has at most twice as many nodes as the shortest.
C34_Balanced ==
  ~aborted /\ LongestPath(heap, root) <= 2 * ShortestPath(heap, root)

\* C34 witness: a tree whose longest path (4 nodes) is exactly twice its
\* shortest (2 nodes).
C34_Witness ==
  /\ last.op = "insert"
  /\ ShortestPath(heap, root) = 2 /\ LongestPath(heap, root) = 4

\* C35: root(), left_child(), right_child(), parent(), key() and get() are
\* read-only: they do not abort and change neither the tree (shape, colours,
\* keys, positions) nor the index.
C35_NavigationReadOnly ==
  [][last'.op \in {"root", "child", "parent", "key", "get"} =>
       /\ ~aborted'
       /\ root' = root /\ heap' = heap /\ nodes' = nodes
       /\ allocated' = allocated]_vars

\* C35 witness: key() was read through a cursor on a child of the root.
C35_Witness ==
  /\ last.op = "key" /\ cursor.kind = "node" /\ cursor.node # root
  /\ last.key1 = heap[cursor.node].key
  /\ Cardinality(Reachable) = 3


\* C36: after writes that returned normally, reading index i of an
\* ExpandingVector yields the value last written at i, and None for an index
\* never written, one beyond the storage length included; a read never
\* changes the storage.
C36_ReadsLastWritten ==
  [][last'.op = "index" =>
       /\ values' = values
       /\ ~aborted'
       /\ last'.value = (IF last'.index \in DOMAIN written
                         THEN written[last'.index] ELSE Nil)]_vars

\* A read beyond the storage length, after the storage grew twice and holds
\* a value.
C36_Witness ==
  /\ last.op = "index"
  /\ Len(values) = 4
  /\ last.index >= Len(values)
  /\ last.value = Nil
  /\ \E i \in DOMAIN written : written[i] # Nil

\* C37: the storage length of an ExpandingVector starts at 1 and is always a
\* power of two; a mutable access at len <= i < 2 * len exactly doubles the
\* length and keeps every stored value; a mutable access at i >= 2 * len
\* aborts on the assertion and leaves the vector unchanged.
C37_GrowthByDoubling ==
  /\ Len(values) = 1
  /\ [][(last'.op = "index_mut" /\ ~aborted) =>
          LET i == last'.index
              len == Len(values)
          IN  /\ \E k \in 0..Len(values') : Len(values') = 2 ^ k
              /\ i < len => (~aborted' /\ Len(values') = len)
              /\ (len <= i /\ i < 2 * len) =>
                   /\ ~aborted'
                   /\ Len(values') = 2 * len
                   /\ \A k \in 1..len : values'[k] = values[k]
              /\ i >= 2 * len => (aborted' /\ values' = values)]_vars

\* A mutable access that failed the assertion, on a storage that had grown.
C37_Witness ==
  /\ aborted
  /\ last.op = "index_mut"
  /\ Len(values) = 2
  /\ last.index >= 2 * Len(values)
  /\ \E i \in DOMAIN written : written[i] # Nil

====
